---- MODULE Spec2Model ----
(***************************************************************************)
(* A model of the bingo client (src/bingo.js) and of the messages its      *)
(* relay (src/relay.js) sends.  Every browser page is a peer: one BingoApp *)
(* with its Relay.  The peers share nothing but the relay's multicast      *)
(* channel, which delivers every message to every listening page, the      *)
(* sender's included, in any order, possibly twice, possibly never.        *)
(*                                                                         *)
(* A peer's state is the record app[p], whose fields are the fields of the *)
(* BingoApp object; the handlers are operators from a peer's state and a   *)
(* command to the peer's next state and the messages it sends.             *)
(***************************************************************************)
EXTENDS Integers, Sequences, FiniteSets, Bags, TLC

\* ------------------------------------------------------------------ bounds

\* The pages that are opened during a run.
NumPeers == 2
\* The seeds of the pseudo-random stream a call of a generator may see.
NumSeeds == 2
\* The iterations of a rejection loop that are followed before it counts as
\* not terminating.
LoopBudget == 60
\* The numbers the host calls in one game before the model stops drawing.
MaxCalled == 5
\* The messages the transport delivers a second time during a run.
MaxDup == 1
\* The messages in flight to one page at a time.
MaxInFlight == 2
\* The intervals of one kind that run on a page without a handle naming them.
MaxLeaked == 1
\* The claim verdicts pending on a page at a time.
MaxTimeouts == 2
\* The clicks on the start, the reset and the claim button during a run.
MaxStarts == 1
MaxResets == 1
MaxClaims == 1
\* The resolution of Math.random(): its values are k / RandomResolution.
RandomResolution == 90
\* The resolution of Math.random() where the election timeout is set: with
\* k / TimerResolution for Math.random(), every delay that a real value of
\* Math.random() gives is given by some k.
TimerResolution == 3001
\* The arguments of generateRandomNumber in the constructor, in ms.
HostWaitMin == 5000
HostWaitMax == 8000
\* The arguments min and max of a generator that is followed draw by draw
\* are taken from -1..DrawSpan.
DrawSpan == 2
\* Messages that something other than the pages posts to the channel.
MaxPosted == 1

\* --------------------------------------------------------------- constants

Nil == 0
MinNumber == 1
MaxNumber == 90
CardLength == 25
RowLength == 5

Peers == 1..NumPeers
Seeds == 1..NumSeeds

Range(s) == {s[i] : i \in DOMAIN s}

\* ---------------------------------------------------------------- messages

\* One shape for every command of the wire: the fields a command does not
\* carry are Nil or empty.
Message(command, clientID, claimer, players, number, calledNumbers, gamecard) ==
    [command |-> command, clientID |-> clientID, claimer |-> claimer,
     players |-> players, number |-> number,
     calledNumbers |-> calledNumbers, gamecard |-> gamecard]

Plain(command) == Message(command, Nil, Nil, <<>>, Nil, <<>>, <<>>)
From(command, clientID) == Message(command, clientID, Nil, <<>>, Nil, <<>>, <<>>)
About(command, claimer) == Message(command, Nil, claimer, <<>>, Nil, <<>>, <<>>)

getGameHost == Plain("hostidentify")
joinGame(relay) == From("join", relay.clientID)
joined(clientID) == From("joined", clientID)
hold(relay) == From("hold", relay.clientID)
relayLeaveGame(relay) == From("leave", relay.clientID)
relayStartGame == Plain("start")
relayResetGame == Plain("reset")
callNumber(number, calledNumbers) ==
    Message("call", Nil, Nil, <<>>, number, calledNumbers, <<>>)
claim(relay, gamecard) ==
    Message("claim", Nil, relay.clientID, <<>>, Nil, <<>>, gamecard)
claimMade(claimer) == About("claimmade", claimer)
claimValid(claimer) == About("claimvalid", claimer)
claimInvalid(claimer) == About("claiminvalid", claimer)
broadcastPlayers(players) ==
    Message("players", Nil, Nil, players, Nil, <<>>, <<>>)
identifyAsHost(relay) == From("iamhost", relay.clientID)

\* ------------------------------------------------------------------ random

\* Math.random() as the seed's stream: its i-th value is
\* Math_random(seed, i) / RandomResolution.  A stream repeats every value
\* once, so that the generators' rejection of duplicates is exercised.
Math_random(seed, i) == ((seed - 1) + ((i - 1) \div 2)) % RandomResolution

generateRandomNumber(min, max, random) ==
    ((random * (max - min + 1)) \div RandomResolution) + min

\* What a generator's loop returns when it does not end within LoopBudget.
Diverges == <<-1>>
NoNumber == -1

RECURSIVE generateRandomNumbersFrom(_, _, _, _, _, _)
generateRandomNumbersFrom(min, max, length, seed, i, numbers) ==
    IF Len(numbers) >= length THEN numbers
    ELSE IF i > LoopBudget THEN Diverges
    ELSE LET r == generateRandomNumber(min, max, Math_random(seed, i))
         IN generateRandomNumbersFrom(min, max, length, seed, i + 1,
                IF r \notin Range(numbers) THEN Append(numbers, r) ELSE numbers)

generateRandomNumbers(min, max, length, seed) ==
    generateRandomNumbersFrom(min, max, length, seed, 1, <<>>)

\* `number` starts as false and the loop runs while it is falsy: a drawn 0
\* is stored and the loop goes on.
RECURSIVE generateRandomNumberNotAlreadyCalledFrom(_, _, _, _, _)
generateRandomNumberNotAlreadyCalledFrom(min, max, array, seed, i) ==
    IF i > LoopBudget THEN NoNumber
    ELSE LET r == generateRandomNumber(min, max, Math_random(seed, i))
         IN IF r \notin Range(array) /\ r # 0 THEN r
            ELSE generateRandomNumberNotAlreadyCalledFrom(min, max, array, seed, i + 1)

generateRandomNumberNotAlreadyCalled(min, max, array, seed) ==
    generateRandomNumberNotAlreadyCalledFrom(min, max, array, seed, 1)

\* ------------------------------------------------------------------ timers

\* An interval field of the app: `handle` says that the id the field holds
\* names a running interval, `leaked` counts the running intervals whose id
\* the field no longer holds (setInterval overwrote it).
NoInterval == [handle |-> FALSE, leaked |-> 0]
setInterval(interval) ==
    [handle |-> TRUE,
     leaked |-> interval.leaked + (IF interval.handle THEN 1 ELSE 0)]
clearInterval(interval) == [interval EXCEPT !.handle = FALSE]
Running(interval) == interval.leaked + (IF interval.handle THEN 1 ELSE 0)

\* ------------------------------------------------------------ the BingoApp

VARIABLES
    page,   \* page[p]: "unopened", "open", "closed", or "frozen" in a loop
            \* that does not end
    app,    \* app[p]: the BingoApp of page p
    net,    \* the bag of [to, msg]: the messages in flight
    quiet,  \* whether the copies a page will never act on are left out
    budget, \* what the run may still do: [start, reset, claim] clicks,
            \* [dup] deliveries that do not consume their message and
            \* [post] messages posted by something other than the pages
    loop    \* the call of a generator that is followed draw by draw: its
            \* arguments and its local variables; or the election timeout
            \* that is followed on the clock: its delay, the moment reached
            \* and the runs of its callback

vars == <<page, app, net, quiet, budget, loop>>

\* No call of a generator is followed.
NoLoop == [generator |-> "none"]

InitialGame ==
    [status |-> "joining", card |-> <<>>, called |-> <<>>, disqualified |-> <<>>]

setInitialState(a) ==
    [a EXCEPT !.elements = [startButton |-> "disabled",
                            resetButton |-> "disabled",
                            claimButton |-> "disabled"],
              !.game = InitialGame]

\* The object as the constructor has it before setInitialState().
NewApp(p) ==
    [relay |-> [clientID |-> p],
     party |-> [host |-> Nil, role |-> "player", players |-> <<>>],
     waitingToJoin |-> TRUE,
     elements |-> [startButton |-> "enabled", resetButton |-> "enabled",
                   claimButton |-> "enabled"],
     classList |-> {},
     game |-> InitialGame,
     hostWaitTimeout |-> FALSE,
     getReadyInterval |-> NoInterval,
     callingInterval |-> NoInterval,
     gameWaitingTimeout |-> FALSE,
     claimTimeouts |-> EmptyBag]

\* What a handler yields: the peer's next state and the messages it sent.
Reply(a, sent) == [app |-> a, sent |-> sent]

constructor(p) ==
    Reply([setInitialState(NewApp(p)) EXCEPT
              !.hostWaitTimeout = TRUE,
              !.getReadyInterval = setInterval(@)],
          <<getGameHost>>)

\* ------------------------------------------------------------------ roster

\* A faulty addPlayer, which puts the player in front of the roster:
\* C13_HostFirst fails on it.
addPlayerInFront(a, playerId) ==
    [a EXCEPT !.party.players = <<playerId>> \o @]

addPlayer(a, playerId) ==
    [a EXCEPT !.party.players = Append(@, playerId)]

\* A faulty removePlayer, which removes the first occurrence only:
\* C31_LeaveHandling fails on it.
removePlayerOnce(a, playerId) ==
    LET players == a.party.players
        hits == {i \in DOMAIN players : players[i] = playerId}
    IN IF hits = {} THEN a
       ELSE LET first == CHOOSE i \in hits : \A j \in hits : i <= j
            IN [a EXCEPT !.party.players =
                    SubSeq(players, 1, first - 1)
                        \o SubSeq(players, first + 1, Len(players))]

removePlayer(a, playerId) ==
    [a EXCEPT !.party.players = SelectSeq(@, LAMBDA player : player # playerId)]

\* ---------------------------------------------------------------- election

\* A faulty becomeHost, which leaves the host out of its own roster:
\* C6_ElectionAlone fails on it.
becomeHostUnlisted(a) ==
    Reply([a EXCEPT !.party.role = "host",
                    !.party.host = a.relay.clientID,
                    !.waitingToJoin = FALSE],
          <<identifyAsHost(a.relay)>>)

becomeHost(a) ==
    Reply(addPlayer([a EXCEPT !.party.role = "host",
                              !.party.host = a.relay.clientID,
                              !.waitingToJoin = FALSE],
                    a.relay.clientID),
          <<identifyAsHost(a.relay)>>)

\* A faulty possiblyAssumeHost, which takes the host role whatever the
\* roster holds: C29_PromotionSkipped fails on it.
possiblyAssumeHostAnyRoster(a) == becomeHost(a)

possiblyAssumeHost(a) ==
    IF Len(a.party.players) < 1 THEN becomeHost(a) ELSE Reply(a, <<>>)

tryToJoinGame(a) == Reply(a, <<joinGame(a.relay)>>)

leaveGame(a) == Reply(a, <<relayLeaveGame(a.relay)>>)

getReady(a) ==
    IF /\ a.party.role = "host"
       /\ a.game.status # "playing"
       /\ Len(a.party.players) > 1
    THEN [a EXCEPT !.elements.startButton = "enabled",
                   !.getReadyInterval = clearInterval(@)]
    ELSE a

\* ---------------------------------------------------------------- controls

startGame(a) ==
    IF a.party.role = "host" THEN Reply(a, <<relayStartGame>>) ELSE Reply(a, <<>>)

resetGame(a) ==
    IF a.party.role = "host" THEN Reply(a, <<relayResetGame>>) ELSE Reply(a, <<>>)

enableClaimButton(a) == [a EXCEPT !.elements.claimButton = "enabled"]

lodgeClaim(a) ==
    Reply([a EXCEPT !.elements.claimButton = "disabled"],
          <<claim(a.relay, a.game.card)>>)

\* ------------------------------------------------------------------ claims

\* The rows are the slices [i, i + 5) for i = 0, 5, ... below the card's
\* length, the columns the entries whose index is c modulo 5, for the five
\* c; the positions here are the 1-based ones of the same entries.
Rows(gamecard) ==
    { { gamecard[j] : j \in { j \in 1..Len(gamecard) : i < j /\ j <= i + RowLength } } :
        i \in { i \in 0..(Len(gamecard) - 1) : i % RowLength = 0 } }

Columns(gamecard) ==
    { { gamecard[j] : j \in { j \in 1..Len(gamecard) : (j - 1) % RowLength = column } } :
        column \in 0..(RowLength - 1) }

\* A faulty verifyClaim, which looks at the rows only: C2_VerifyClaim fails
\* on it.
verifyClaimRowsOnly(a, gamecard) ==
    \E line \in Rows(gamecard) :
        \A number \in line : number \in Range(a.game.called)

verifyClaim(a, gamecard) ==
    \E line \in Rows(gamecard) \cup Columns(gamecard) :
        \A number \in line : number \in Range(a.game.called)

generateGameCard(a, seed) ==
    [a EXCEPT !.game.card =
        generateRandomNumbers(MinNumber, MaxNumber, CardLength, seed)]

\* --------------------------------------------------------------- the draws

startCalling(a) == [a EXCEPT !.callingInterval = setInterval(@)]

pauseCalling(a) == [a EXCEPT !.callingInterval = clearInterval(@)]

\* One tick of a calling interval.
callingTick(a, seed) ==
    LET number == generateRandomNumberNotAlreadyCalled(
                      MinNumber, MaxNumber, a.game.called, seed)
        drawn == [a EXCEPT !.game.called = Append(@, number)]
    IN Reply(IF Len(drawn.game.called) = MaxNumber THEN pauseCalling(drawn) ELSE drawn,
             <<callNumber(number, drawn.game.called)>>)

\* ---------------------------------------------------------------- commands

commandHostIdentify(a) ==
    IF a.party.role = "host"
    THEN Reply(a, <<identifyAsHost(a.relay)>>)
    ELSE Reply(a, <<>>)

\* A faulty commandHostIdentified, which asks to join whether the page waits
\* to join or not: C30_NoJoinAfterJoined fails on it.
commandHostIdentifiedJoiningAgain(a, command) ==
    tryToJoinGame([a EXCEPT !.party.host = command.clientID,
                            !.hostWaitTimeout = FALSE])

\* A faulty commandHostIdentified, which leaves the election timeout pending:
\* C17_NoSelfPromotion fails on it.
commandHostIdentifiedKeepingTimeout(a, command) ==
    LET known == [a EXCEPT !.party.host = command.clientID]
    IN IF known.waitingToJoin THEN tryToJoinGame(known) ELSE Reply(known, <<>>)

commandHostIdentified(a, command) ==
    LET known == [a EXCEPT !.party.host = command.clientID,
                           !.hostWaitTimeout = FALSE]
    IN IF known.waitingToJoin THEN tryToJoinGame(known) ELSE Reply(known, <<>>)

\* A faulty commandJoinGame, which lets a page in whatever the status is:
\* C1_JoinGating fails on it.
commandJoinGameAnyStatus(a, command) ==
    IF a.party.role = "host"
    THEN LET added == addPlayer(a, command.clientID)
         IN Reply(added, <<joined(command.clientID),
                           broadcastPlayers(added.party.players)>>)
    ELSE Reply(a, <<>>)

commandJoinGame(a, command) ==
    IF a.party.role = "host"
    THEN IF a.game.status = "joining"
         THEN LET added == addPlayer(a, command.clientID)
              IN Reply(added, <<joined(command.clientID),
                                broadcastPlayers(added.party.players)>>)
         ELSE Reply(a, <<hold(a.relay)>>)
    ELSE Reply(a, <<>>)

commandJoinedGame(a, command) ==
    IF command.clientID = a.relay.clientID
    THEN Reply([a EXCEPT !.waitingToJoin = FALSE,
                         !.gameWaitingTimeout = FALSE], <<>>)
    ELSE Reply(a, <<>>)

\* A faulty commandHold, which sets the retry timeout on any page:
\* C32_Gating fails on it.
commandHoldAnyPage(a) ==
    Reply([a EXCEPT !.gameWaitingTimeout = TRUE], <<>>)

commandHold(a) ==
    IF a.waitingToJoin
    THEN Reply([a EXCEPT !.gameWaitingTimeout = TRUE], <<>>)
    ELSE Reply(a, <<>>)

commandLeaveGame(a, command) ==
    IF a.party.role = "host"
    THEN LET removed == removePlayer(a, command.clientID)
         IN Reply(removed, <<broadcastPlayers(removed.party.players)>>)
    ELSE Reply(a, <<>>)

commandStartGame(a, seed) ==
    LET started == generateGameCard(
                       enableClaimButton(
                           [a EXCEPT !.getReadyInterval = clearInterval(@),
                                     !.game.status = "playing",
                                     !.classList = @ \cup {"started"}]),
                       seed)
    IN Reply(IF a.party.role = "host" THEN startCalling(started) ELSE started, <<>>)

\* A faulty commandResetGame, which empties the roster with the game:
\* C8_ResetTransition fails on it.
commandResetGameEmptyRoster(a) ==
    Reply([setInitialState([a EXCEPT !.classList = @ \ {"finished"},
                                     !.party.players = <<>>])
              EXCEPT !.getReadyInterval = setInterval(@)],
          <<>>)

commandResetGame(a) ==
    Reply([setInitialState([a EXCEPT !.classList = @ \ {"finished"}])
              EXCEPT !.getReadyInterval = setInterval(@)],
          <<>>)

\* A faulty commandCall, which puts the number in front of the called list:
\* C27_CalledMirror fails on it.
commandCallInFront(a, command) ==
    IF a.party.role # "host"
    THEN Reply([a EXCEPT !.game.called = <<command.number>> \o @], <<>>)
    ELSE Reply(a, <<>>)

commandCall(a, command) ==
    IF a.party.role # "host"
    THEN Reply([a EXCEPT !.game.called = Append(@, command.number)], <<>>)
    ELSE Reply(a, <<>>)

\* The verdict that a claim's timeout will give.
Verdict(claimer, valid) == [claimer |-> claimer, valid |-> valid]

\* A faulty commandClaim, which does not look at the disqualified players:
\* C5_DisqualifiedIgnored fails on it.
commandClaimFromAnyone(a, command) ==
    IF a.party.role = "host"
    THEN LET paused == pauseCalling(a)
             verdict == Verdict(command.claimer, verifyClaim(paused, command.gamecard))
         IN Reply([paused EXCEPT !.claimTimeouts = @ (+) SetToBag({verdict})],
                  <<claimMade(command.claimer)>>)
    ELSE Reply(a, <<>>)

commandClaim(a, command) ==
    IF /\ a.party.role = "host"
       /\ command.claimer \notin Range(a.game.disqualified)
    THEN LET paused == pauseCalling(a)
             verdict == Verdict(command.claimer, verifyClaim(paused, command.gamecard))
         IN Reply([paused EXCEPT !.claimTimeouts = @ (+) SetToBag({verdict})],
                  <<claimMade(command.claimer)>>)
    ELSE Reply(a, <<>>)

\* A faulty claimTimeout, which does not start the calling again after an
\* invalid claim: C3_InvalidClaimOutcome fails on it.
claimTimeoutStayingPaused(a, verdict) ==
    LET waited == [a EXCEPT !.claimTimeouts = @ (-) SetToBag({verdict})]
    IN IF verdict.valid
       THEN Reply(waited, <<claimValid(verdict.claimer)>>)
       ELSE Reply([waited EXCEPT !.game.disqualified = Append(@, verdict.claimer)],
                  <<claimInvalid(verdict.claimer)>>)

\* The callback of a claim's timeout.
claimTimeout(a, verdict) ==
    LET waited == [a EXCEPT !.claimTimeouts = @ (-) SetToBag({verdict})]
    IN IF verdict.valid
       THEN Reply(waited, <<claimValid(verdict.claimer)>>)
       ELSE Reply(startCalling([waited EXCEPT !.game.disqualified =
                                                  Append(@, verdict.claimer)]),
                  <<claimInvalid(verdict.claimer)>>)

commandClaimMade(a, command) == Reply(a, <<>>)

commandClaimValid(a, command) ==
    Reply([a EXCEPT !.classList = (@ \ {"started"}) \cup {"finished"},
                    !.elements.resetButton = "enabled"],
          <<>>)

commandClaimInvalid(a, command) == Reply(a, <<>>)

\* A faulty commandUpdatePlayers, which adds the broadcast's players to the
\* roster it has: C9_RosterReplaced fails on it.
commandUpdatePlayersAppending(a, command) ==
    IF a.party.role # "host"
    THEN Reply([a EXCEPT !.party.players = @ \o command.players], <<>>)
    ELSE Reply(a, <<>>)

\* A faulty commandUpdatePlayers, which a host obeys too: C18_SplitBrain
\* fails on it.
commandUpdatePlayersOnHost(a, command) ==
    Reply([a EXCEPT !.party.players = command.players], <<>>)

commandUpdatePlayers(a, command) ==
    IF a.party.role # "host"
    THEN Reply([a EXCEPT !.party.players = command.players], <<>>)
    ELSE Reply(a, <<>>)

\* A faulty dispatcher, whose case 'hold' has no break and falls through to
\* the case 'leave': C16_DispatcherRouting fails on it.
handleCommandFallingThrough(a, command, seed) ==
    CASE command.command = "hostidentify" -> commandHostIdentify(a)
      [] command.command = "iamhost" -> commandHostIdentified(a, command)
      [] command.command = "join" -> commandJoinGame(a, command)
      [] command.command = "joined" -> commandJoinedGame(a, command)
      [] command.command = "hold" ->
             LET held == commandHold(a)
                 left == commandLeaveGame(held.app, command)
             IN Reply(left.app, held.sent \o left.sent)
      [] command.command = "leave" -> commandLeaveGame(a, command)
      [] command.command = "players" -> commandUpdatePlayers(a, command)
      [] command.command = "start" -> commandStartGame(a, seed)
      [] command.command = "reset" -> commandResetGame(a)
      [] command.command = "call" -> commandCall(a, command)
      [] command.command = "claim" -> commandClaim(a, command)
      [] command.command = "claimmade" -> commandClaimMade(a, command)
      [] command.command = "claimvalid" -> commandClaimValid(a, command)
      [] command.command = "claiminvalid" -> commandClaimInvalid(a, command)
      [] OTHER -> Reply(a, <<>>)

handleCommand(a, command, seed) ==
    CASE command.command = "hostidentify" -> commandHostIdentify(a)
      [] command.command = "iamhost" -> commandHostIdentified(a, command)
      [] command.command = "join" -> commandJoinGame(a, command)
      [] command.command = "joined" -> commandJoinedGame(a, command)
      [] command.command = "hold" -> commandHold(a)
      [] command.command = "leave" -> commandLeaveGame(a, command)
      [] command.command = "players" -> commandUpdatePlayers(a, command)
      [] command.command = "start" -> commandStartGame(a, seed)
      [] command.command = "reset" -> commandResetGame(a)
      [] command.command = "call" -> commandCall(a, command)
      [] command.command = "claim" -> commandClaim(a, command)
      [] command.command = "claimmade" -> commandClaimMade(a, command)
      [] command.command = "claimvalid" -> commandClaimValid(a, command)
      [] command.command = "claiminvalid" -> commandClaimInvalid(a, command)
      [] OTHER -> Reply(a, <<>>)

\* --------------------------------------------------------------- the relay

Open == {p \in Peers : page[p] = "open"}

\* A message that page a will never act on: its handler returns at once, or
\* only writes the status line, in a's state and in every state a can come
\* to have (a host stays a host, a page that has joined or whose election
\* timeout is over stays so, and a clientID never changes).
Inert(a, msg) ==
    \/ msg.command \in {"claimmade", "claiminvalid"}
    \/ msg.command \in {"call", "players"} /\ a.party.role = "host"
    \/ msg.command = "joined" /\ msg.clientID # a.relay.clientID
    \/ msg.command = "hold" /\ ~a.waitingToJoin
    \/ /\ msg.command \in {"hostidentify", "join", "leave", "claim"}
       /\ a.party.role = "player"
       /\ ~a.hostWaitTimeout

\* Relay.send: one copy of every message to every page that listens.  The
\* copies a page will never act on are left out when `quiet` is set: their
\* delivery would be a step that changes nothing.
Fanout(sent, listeners, apps) ==
    LET copies == [i \in DOMAIN sent |->
                      SetToBag({[to |-> q, msg |-> sent[i]] :
                                  q \in {q \in listeners :
                                            ~(quiet /\ Inert(apps[q], sent[i]))}})]
        RECURSIVE Sum(_)
        Sum(i) == IF i = 0 THEN EmptyBag ELSE Sum(i - 1) (+) copies[i]
    IN Sum(Len(sent))

\* The messages of `flight` that are not on their way to page p.
NotTo(p, flight) == [e \in {x \in BagToSet(flight) : x.to # p} |-> flight[e]]

\* The messages of `flight` that are on their way to page p.
OnlyTo(p, flight) == [e \in {x \in BagToSet(flight) : x.to = p} |-> flight[e]]

InBounds(a, flight) ==
    /\ a.getReadyInterval.leaked <= MaxLeaked
    /\ a.callingInterval.leaked <= MaxLeaked
    /\ BagCardinality(a.claimTimeouts) <= MaxTimeouts
    /\ \A q \in Peers : BagCardinality(OnlyTo(q, flight)) <= MaxInFlight

\* A step of page p: its handler's reply r becomes the page's state, and
\* what it sent is in flight, beside `rest`, to the pages in `listeners`.
Step(p, reply, rest, listeners) ==
    \E r \in {reply} :
        \E flight \in {rest (+) Fanout(r.sent, listeners, [app EXCEPT ![p] = r.app])} :
            /\ InBounds(r.app, flight)
            /\ app' = [app EXCEPT ![p] = r.app]
            /\ net' = flight
            /\ UNCHANGED <<quiet, loop>>

\* ----------------------------------------------------------------- actions

\* A page is opened: the constructor runs.
OpenPage(p) ==
    /\ page[p] = "unopened"
    /\ page' = [page EXCEPT ![p] = "open"]
    /\ Step(p, constructor(p), net, Open \cup {p})
    /\ UNCHANGED budget

\* Something other than the pages posts a message to the channel: every
\* open page is sent a copy.
Post(msg) ==
    /\ budget.post > 0
    /\ budget' = [budget EXCEPT !.post = @ - 1]
    /\ \E flight \in {net (+) Fanout(<<msg>>, Open, app)} :
           /\ \A q \in Peers : BagCardinality(OnlyTo(q, flight)) <= MaxInFlight
           /\ net' = flight
    /\ UNCHANGED <<page, app, quiet, loop>>

\* The relay hands page p a message, once.
Deliver(p, e, seed) ==
    /\ page[p] = "open"
    /\ BagIn(e, net)
    /\ e.to = p
    /\ seed = 1 \/ e.msg.command = "start"
    /\ Step(p, handleCommand(app[p], e.msg, seed),
            net (-) SetToBag({e}), Open)
    /\ UNCHANGED <<page, budget>>

\* The relay hands page p a message and will hand it over again.
Redeliver(p, e, seed) ==
    /\ page[p] = "open"
    /\ BagIn(e, net)
    /\ e.to = p
    /\ seed = 1 \/ e.msg.command = "start"
    /\ budget.dup > 0
    /\ budget' = [budget EXCEPT !.dup = @ - 1]
    /\ Step(p, handleCommand(app[p], e.msg, seed), net, Open)
    /\ UNCHANGED page

\* The relay drops a message.
Lose(e) ==
    /\ BagIn(e, net)
    /\ net' = net (-) SetToBag({e})
    /\ UNCHANGED <<page, app, quiet, budget, loop>>

HostWaitTimeout(p) ==
    /\ page[p] = "open"
    /\ app[p].hostWaitTimeout
    /\ Step(p, possiblyAssumeHost([app[p] EXCEPT !.hostWaitTimeout = FALSE]), net, Open)
    /\ UNCHANGED <<page, budget>>

GetReadyInterval(p) ==
    /\ page[p] = "open"
    /\ Running(app[p].getReadyInterval) > 0
    /\ Step(p, Reply(getReady(app[p]), <<>>), net, Open)
    /\ UNCHANGED <<page, budget>>

\* Every number of the range is in the called list: the loop of
\* generateRandomNumberNotAlreadyCalled has nothing to end on.
Exhausted(a) ==
    \A number \in MinNumber..MaxNumber : number \in Range(a.game.called)

\* A draw interval fires.  The draws are followed for the first MaxCalled
\* numbers of a game and for its last MaxCalled ones.  A draw from the
\* exhausted range does not return: the page does nothing more.
CallingInterval(p, seed) ==
    /\ page[p] = "open"
    /\ Running(app[p].callingInterval) > 0
    /\ \/ Len(app[p].game.called) < MaxCalled
       \/ Len(app[p].game.called) >= MaxNumber - MaxCalled
    /\ IF Exhausted(app[p])
       THEN /\ seed = 1
            /\ page' = [page EXCEPT ![p] = "frozen"]
            /\ UNCHANGED <<app, net, quiet, budget, loop>>
       ELSE /\ generateRandomNumberNotAlreadyCalled(
                   MinNumber, MaxNumber, app[p].game.called, seed) # NoNumber
            /\ Step(p, callingTick(app[p], seed), net, Open)
            /\ UNCHANGED <<page, budget>>

GameWaitingTimeout(p) ==
    /\ page[p] = "open"
    /\ app[p].gameWaitingTimeout
    /\ Step(p, tryToJoinGame([app[p] EXCEPT !.gameWaitingTimeout = FALSE]), net, Open)
    /\ UNCHANGED <<page, budget>>

ClaimTimeout(p, verdict) ==
    /\ page[p] = "open"
    /\ BagIn(verdict, app[p].claimTimeouts)
    /\ Step(p, claimTimeout(app[p], verdict), net, Open)
    /\ UNCHANGED <<page, budget>>

ClickStart(p) ==
    /\ page[p] = "open"
    /\ app[p].elements.startButton = "enabled"
    /\ budget.start > 0
    /\ budget' = [budget EXCEPT !.start = @ - 1]
    /\ Step(p, startGame(app[p]), net, Open)
    /\ UNCHANGED page

ClickReset(p) ==
    /\ page[p] = "open"
    /\ app[p].elements.resetButton = "enabled"
    /\ budget.reset > 0
    /\ budget' = [budget EXCEPT !.reset = @ - 1]
    /\ Step(p, resetGame(app[p]), net, Open)
    /\ UNCHANGED page

ClickClaim(p) ==
    /\ page[p] = "open"
    /\ app[p].elements.claimButton = "enabled"
    /\ budget.claim > 0
    /\ budget' = [budget EXCEPT !.claim = @ - 1]
    /\ Step(p, lodgeClaim(app[p]), net, Open)
    /\ UNCHANGED page

\* The page is closed: beforeunload sends the leave, and nothing reaches the
\* page any more.
ClosePage(p) ==
    /\ page[p] = "open"
    /\ page' = [page EXCEPT ![p] = "closed"]
    /\ Step(p, leaveGame(app[p]),
            NotTo(p, net),
            Open \ {p})
    /\ UNCHANGED budget

\* The first page is open: its constructor has run.
Init ==
    /\ page = [p \in Peers |-> IF p = 1 THEN "open" ELSE "unopened"]
    /\ app = [p \in Peers |-> IF p = 1 THEN constructor(p).app ELSE NewApp(p)]
    /\ net = SetToBag({[to |-> 1, msg |-> getGameHost]})
    /\ quiet = TRUE
    /\ budget = [start |-> MaxStarts, reset |-> MaxResets, claim |-> MaxClaims,
                 dup |-> MaxDup,
                 post |-> 0]
    /\ loop = NoLoop

Next ==
    \/ \E p \in Peers : OpenPage(p)
    \/ \E p \in Peers, e \in BagToSet(net), seed \in Seeds : Deliver(p, e, seed)
    \/ \E p \in Peers, e \in BagToSet(net), seed \in Seeds : Redeliver(p, e, seed)
    \/ \E e \in BagToSet(net) : Lose(e)
    \/ \E p \in Peers : HostWaitTimeout(p)
    \/ \E p \in Peers : GetReadyInterval(p)
    \/ \E p \in Peers, seed \in Seeds : CallingInterval(p, seed)
    \/ \E p \in Peers : GameWaitingTimeout(p)
    \/ \E p \in Peers : \E verdict \in BagToSet(app[p].claimTimeouts) :
           ClaimTimeout(p, verdict)
    \/ \E p \in Peers : ClickStart(p)
    \/ \E p \in Peers : ClickReset(p)
    \/ \E p \in Peers : ClickClaim(p)
    \/ \E p \in Peers : ClosePage(p)

Spec == Init /\ [][Next]_vars

\* ------------------------------------------------------------- the lobby
\* The pages open, elect a host and join, and the host may start the game;
\* the transport may lose a message and hand one over twice.

LobbyInit ==
    /\ page = [p \in Peers |-> IF p = 1 THEN "open" ELSE "unopened"]
    /\ app = [p \in Peers |-> IF p = 1 THEN constructor(p).app ELSE NewApp(p)]
    /\ net = SetToBag({[to |-> 1, msg |-> getGameHost]})
    /\ quiet = TRUE
    /\ budget = [start |-> MaxStarts, reset |-> 0, claim |-> 0, dup |-> MaxDup,
                 post |-> 0]
    /\ loop = NoLoop

LobbyNext ==
    \/ \E p \in Peers : OpenPage(p)
    \/ \E p \in Peers, e \in BagToSet(net), seed \in Seeds : Deliver(p, e, seed)
    \/ \E p \in Peers, e \in BagToSet(net), seed \in Seeds : Redeliver(p, e, seed)
    \/ \E e \in BagToSet(net) : Lose(e)
    \/ \E p \in Peers : HostWaitTimeout(p)
    \/ \E p \in Peers : GetReadyInterval(p)
    \/ \E p \in Peers : GameWaitingTimeout(p)
    \/ \E p \in Peers : ClickStart(p)
    \/ \E p \in Peers : ClosePage(p)

SpecLobby == LobbyInit /\ [][LobbyNext]_vars

\* ------------------------------------------------- the lobby, exactly once
\* The lobby with a transport that hands every message over once and loses
\* none.

OnceNext ==
    \/ \E p \in Peers : OpenPage(p)
    \/ \E p \in Peers, e \in BagToSet(net), seed \in Seeds : Deliver(p, e, seed)
    \/ \E p \in Peers : HostWaitTimeout(p)
    \/ \E p \in Peers : GetReadyInterval(p)
    \/ \E p \in Peers : GameWaitingTimeout(p)
    \/ \E p \in Peers : ClickStart(p)
    \/ \E p \in Peers : ClosePage(p)

SpecOnce == LobbyInit /\ [][OnceNext]_vars

\* --------------------------------------------------------------- the game
\* Two pages have met in the lobby: page 1 took the host role when its
\* election timeout fired, page 2 heard it, asked to join and was let in, and
\* the host's ready poll has enabled its start button.  The game is played
\* from there; the transport may hand a call or a claim over twice.

ReadyHost ==
    LET elected == possiblyAssumeHost(
                       [constructor(1).app EXCEPT !.hostWaitTimeout = FALSE]).app
        guest == commandHostIdentified(constructor(2).app,
                                       identifyAsHost(elected.relay)).app
    IN getReady(commandJoinGame(elected, joinGame(guest.relay)).app)

ReadyGuest ==
    LET heard == commandHostIdentified(constructor(2).app,
                                       identifyAsHost(ReadyHost.relay)).app
        let_in == commandJoinedGame(heard, joined(heard.relay.clientID)).app
    IN commandUpdatePlayers(let_in, broadcastPlayers(ReadyHost.party.players)).app

GameInit ==
    /\ page = [p \in Peers |-> IF p <= 2 THEN "open" ELSE "unopened"]
    /\ app = [p \in Peers |-> IF p = 1 THEN ReadyHost
                               ELSE IF p = 2 THEN ReadyGuest ELSE NewApp(p)]
    /\ net = EmptyBag
    /\ quiet = TRUE
    /\ budget = [start |-> MaxStarts, reset |-> MaxResets, claim |-> MaxClaims,
                 dup |-> MaxDup,
                 post |-> 0]
    /\ loop = NoLoop

GameNext ==
    \/ \E p \in Peers, e \in BagToSet(net), seed \in Seeds : Deliver(p, e, seed)
    \/ \E p \in Peers, e \in BagToSet(net), seed \in Seeds :
           e.msg.command \in {"call", "claim"} /\ Redeliver(p, e, seed)
    \/ \E p \in Peers : GetReadyInterval(p)
    \/ \E p \in Peers, seed \in Seeds : CallingInterval(p, seed)
    \/ \E p \in Peers : \E verdict \in BagToSet(app[p].claimTimeouts) :
           ClaimTimeout(p, verdict)
    \/ \E p \in Peers : ClickStart(p)
    \/ \E p \in Peers : ClickReset(p)
    \/ \E p \in Peers : ClickClaim(p)

SpecGame == GameInit /\ [][GameNext]_vars

\* ------------------------------------------------------------ the verdicts
\* The game is on, the guest has lodged a claim for its card, and the host
\* has called the numbers that stand at chosen positions of that card,
\* with or without a number that is not on the card before them.  The host
\* judges the claim from there.

CardPositions == 0..(CardLength - 1)
RowAt(r) == {5 * r + k : k \in 0..4}
ColumnAt(c) == {c + 5 * k : k \in 0..4}
CardLines == {RowAt(r) : r \in 0..4} \cup {ColumnAt(c) : c \in 0..4}
CardDiagonals == {{0, 6, 12, 18, 24}, {4, 8, 12, 16, 20}}

CalledPositions ==
    LET lines == CardLines \cup CardDiagonals
    IN UNION { lines,
               {line \ {position} : line \in lines, position \in CardPositions},
               {RowAt(r) \cup ColumnAt(c) : r \in 0..4, c \in 0..4},
               {UNION CardDiagonals, CardPositions, {}} }

\* The numbers of the card at the positions, in the card's order.
RECURSIVE NumbersAt(_, _, _)
NumbersAt(gamecard, positions, i) ==
    IF i >= Len(gamecard) THEN <<>>
    ELSE (IF i \in positions THEN <<gamecard[i + 1]>> ELSE <<>>)
             \o NumbersAt(gamecard, positions, i + 1)

VerifyInit ==
    \E seed \in Seeds, positions \in CalledPositions, stray \in BOOLEAN :
        LET lodged == lodgeClaim(commandStartGame(ReadyGuest, seed).app)
            called == (IF stray THEN <<MaxNumber>> ELSE <<>>)
                          \o NumbersAt(lodged.app.game.card, positions, 0)
            host == [commandStartGame(ReadyHost, 1).app EXCEPT !.game.called = called]
        IN /\ page = [p \in Peers |-> IF p <= 2 THEN "open" ELSE "unopened"]
           /\ app = [p \in Peers |-> IF p = 1 THEN host
                                      ELSE IF p = 2 THEN lodged.app ELSE NewApp(p)]
           /\ net = SetToBag({[to |-> 1, msg |-> lodged.sent[1]]})
           /\ quiet = TRUE
           /\ budget = [start |-> 0, reset |-> 0, claim |-> 0, dup |-> 0,
                 post |-> 0]
           /\ loop = NoLoop

VerifyNext ==
    \/ \E p \in Peers, e \in BagToSet(net), seed \in Seeds : Deliver(p, e, seed)
    \/ \E p \in Peers : \E verdict \in BagToSet(app[p].claimTimeouts) :
           ClaimTimeout(p, verdict)

SpecVerify == VerifyInit /\ [][VerifyNext]_vars

\* ------------------------------------------------------------- the rematch
\* A game has been won: the host has drawn a row of the guest's card, the
\* guest has claimed, the host has judged the claim valid and both pages
\* have heard so.  The host may click reset, and click it once more before
\* its first reset has come back, and start the next game, which is followed
\* up to its first draw.

RECURSIVE Drawn(_, _, _)
Drawn(a, seed, draws) ==
    IF draws = 0 THEN a ELSE callingTick(Drawn(a, seed, draws - 1), seed).app

RECURSIVE Heard(_, _, _)
Heard(a, calledNumbers, calls) ==
    IF calls = 0 THEN a
    ELSE commandCall(Heard(a, calledNumbers, calls - 1),
                     callNumber(calledNumbers[calls],
                                SubSeq(calledNumbers, 1, calls))).app

WonHost ==
    LET drawn == Drawn(commandStartGame(ReadyHost, 1).app, 1, RowLength)
        claimed == commandClaim(drawn, claim(ReadyGuest.relay,
                                             commandStartGame(ReadyGuest, 1).app.game.card)).app
        verdict == CHOOSE verdict \in BagToSet(claimed.claimTimeouts) : TRUE
    IN commandClaimValid(claimTimeout(claimed, verdict).app,
                         claimValid(verdict.claimer)).app

WonGuest ==
    LET heard == Heard(commandStartGame(ReadyGuest, 1).app,
                       WonHost.game.called, Len(WonHost.game.called))
    IN commandClaimValid(lodgeClaim(heard).app, claimValid(heard.relay.clientID)).app

RematchInit ==
    /\ page = [p \in Peers |-> IF p <= 2 THEN "open" ELSE "unopened"]
    /\ app = [p \in Peers |-> IF p = 1 THEN WonHost
                               ELSE IF p = 2 THEN WonGuest ELSE NewApp(p)]
    /\ net = EmptyBag
    /\ quiet = TRUE
    /\ budget = [start |-> MaxStarts, reset |-> MaxResets + 1, claim |-> 0,
                 dup |-> 0,
                 post |-> 0]
    /\ loop = NoLoop

RematchNext ==
    \/ \E p \in Peers, e \in BagToSet(net), seed \in Seeds : Deliver(p, e, seed)
    \/ \E p \in Peers : GetReadyInterval(p)
    \/ \E p \in Peers : ClickStart(p)
    \/ \E p \in Peers : ClickReset(p)

SpecRematch == RematchInit /\ [][RematchNext]_vars

\* ---------------------------------------------------------------- the hold
\* The host has let page 2 in, the acknowledgement did not arrive, and the
\* host has started the game.  Page 2, still waiting to join, has asked
\* again and has been told to hold.  The host draws numbers while page 2
\* retries, and the transport may lose any message.

HoldingHost == commandStartGame(ReadyHost, 1).app

HeldGuest ==
    LET heard == commandHostIdentified(constructor(2).app,
                                       identifyAsHost(ReadyHost.relay)).app
    IN commandHold(heard).app

HoldInit ==
    /\ page = [p \in Peers |-> IF p <= 2 THEN "open" ELSE "unopened"]
    /\ app = [p \in Peers |-> IF p = 1 THEN HoldingHost
                               ELSE IF p = 2 THEN HeldGuest ELSE NewApp(p)]
    /\ net = EmptyBag
    /\ quiet = TRUE
    /\ budget = [start |-> 0, reset |-> 0, claim |-> 0, dup |-> 0,
                 post |-> 0]
    /\ loop = NoLoop

HoldNext ==
    \/ \E p \in Peers, e \in BagToSet(net), seed \in Seeds : Deliver(p, e, seed)
    \/ \E e \in BagToSet(net) : Lose(e)
    \/ \E p \in Peers : GameWaitingTimeout(p)
    \/ \E p \in Peers, seed \in Seeds : CallingInterval(p, seed)

SpecHold == HoldInit /\ [][HoldNext]_vars

\* -------------------------------------------------------- the arbitration
\* The host has started the game once and both pages have handled the
\* start: the host's draw interval is pending and no number is drawn yet.
\* Each of the two pages may lodge a claim; every message is handed over
\* once.

PlayingGuest == commandStartGame(ReadyGuest, 1).app

ArbitrationInit ==
    /\ page = [p \in Peers |-> IF p <= 2 THEN "open" ELSE "unopened"]
    /\ app = [p \in Peers |-> IF p = 1 THEN HoldingHost
                               ELSE IF p = 2 THEN PlayingGuest ELSE NewApp(p)]
    /\ net = EmptyBag
    /\ quiet = TRUE
    /\ budget = [start |-> 0, reset |-> 0, claim |-> MaxClaims + 1, dup |-> 0,
                 post |-> 0]
    /\ loop = NoLoop

ArbitrationNext ==
    \/ \E p \in Peers, e \in BagToSet(net), seed \in Seeds : Deliver(p, e, seed)
    \/ \E p \in Peers, seed \in Seeds : CallingInterval(p, seed)
    \/ \E p \in Peers : \E verdict \in BagToSet(app[p].claimTimeouts) :
           ClaimTimeout(p, verdict)
    \/ \E p \in Peers : ClickClaim(p)

SpecArbitration == ArbitrationInit /\ [][ArbitrationNext]_vars

\* ------------------------------------------------- the overlapping claims
\* The game is on; the host has drawn the five numbers of the first row of
\* the guest's card and the guest has heard them.  The host's own card is
\* the same as the guest's or another one, which has no full line.  Both
\* pages may lodge a claim, and the game may be reset after a win.

OverlapInit ==
    \E seed \in Seeds :
        LET host == Drawn(commandStartGame(ReadyHost, seed).app, 1, RowLength)
            guest == Heard(PlayingGuest, host.game.called, RowLength)
        IN /\ page = [p \in Peers |-> IF p <= 2 THEN "open" ELSE "unopened"]
           /\ app = [p \in Peers |-> IF p = 1 THEN host
                                      ELSE IF p = 2 THEN guest ELSE NewApp(p)]
           /\ net = EmptyBag
           /\ quiet = TRUE
           /\ budget = [start |-> 0, reset |-> MaxResets,
                        claim |-> MaxClaims + 1, dup |-> 0, post |-> 0]
           /\ loop = NoLoop

OverlapNext ==
    \/ \E p \in Peers, e \in BagToSet(net), seed \in Seeds : Deliver(p, e, seed)
    \/ \E p \in Peers, seed \in Seeds : CallingInterval(p, seed)
    \/ \E p \in Peers : \E verdict \in BagToSet(app[p].claimTimeouts) :
           ClaimTimeout(p, verdict)
    \/ \E p \in Peers : ClickReset(p)
    \/ \E p \in Peers : ClickClaim(p)

SpecOverlap == OverlapInit /\ [][OverlapNext]_vars

\* ------------------------------------------------- the departing claimer
\* The game is on with the five numbers of the guest's first row called, as
\* in the overlapping claims.  A page may lodge a claim, and a page may be
\* closed at any moment, before or after its claim is judged.  No number is
\* drawn meanwhile.

DepartureInit ==
    \E seed \in Seeds :
        LET host == Drawn(commandStartGame(ReadyHost, seed).app, 1, RowLength)
            guest == Heard(PlayingGuest, host.game.called, RowLength)
        IN /\ page = [p \in Peers |-> IF p <= 2 THEN "open" ELSE "unopened"]
           /\ app = [p \in Peers |-> IF p = 1 THEN host
                                      ELSE IF p = 2 THEN guest ELSE NewApp(p)]
           /\ net = EmptyBag
           /\ quiet = TRUE
           /\ budget = [start |-> 0, reset |-> 0, claim |-> MaxClaims + 1,
                        dup |-> 0, post |-> 0]
           /\ loop = NoLoop

DepartureNext ==
    \/ \E p \in Peers, e \in BagToSet(net), seed \in Seeds : Deliver(p, e, seed)
    \/ \E p \in Peers : \E verdict \in BagToSet(app[p].claimTimeouts) :
           ClaimTimeout(p, verdict)
    \/ \E p \in Peers : ClickClaim(p)
    \/ \E p \in Peers : ClosePage(p)

SpecDeparture == DepartureInit /\ [][DepartureNext]_vars

\* ------------------------------------------------------- the last numbers
\* The game is on and the host has drawn every number but 1 and 2, from 90
\* down to 3, with the guest hearing each call.  The host's start button is
\* as enabled as it was when the game began.

LateCalled == [i \in 1..(MaxNumber - 2) |-> MaxNumber + 1 - i]

ExhaustionInit ==
    /\ page = [p \in Peers |-> IF p <= 2 THEN "open" ELSE "unopened"]
    /\ app = [p \in Peers |->
                 IF p = 1 THEN [HoldingHost EXCEPT !.game.called = LateCalled]
                 ELSE IF p = 2 THEN [PlayingGuest EXCEPT !.game.called = LateCalled]
                 ELSE NewApp(p)]
    /\ net = EmptyBag
    /\ quiet = TRUE
    /\ budget = [start |-> MaxStarts, reset |-> 0, claim |-> MaxClaims,
                 dup |-> 0, post |-> 0]
    /\ loop = NoLoop

ExhaustionNext ==
    \/ \E p \in Peers, e \in BagToSet(net), seed \in Seeds : Deliver(p, e, seed)
    \/ \E p \in Peers, seed \in Seeds : CallingInterval(p, seed)
    \/ \E p \in Peers : \E verdict \in BagToSet(app[p].claimTimeouts) :
           ClaimTimeout(p, verdict)
    \/ \E p \in Peers : ClickStart(p)
    \/ \E p \in Peers : ClickClaim(p)

SpecExhaustion == ExhaustionInit /\ [][ExhaustionNext]_vars

\* ---------------------------------------------------------- the last draw
\* The host has handled the start twice, so that two draw intervals are
\* pending, and has drawn every number but 1, from 90 down to 2, with the
\* guest hearing each call.  Both pages may lodge a claim.  The browser sees
\* to it that every message is handed over and that every timeout and
\* interval that is pending fires, as long as the page runs.

LastDrawInit ==
    LET called == [i \in 1..(MaxNumber - 1) |-> MaxNumber + 1 - i]
    IN /\ page = [p \in Peers |-> IF p <= 2 THEN "open" ELSE "unopened"]
       /\ app = [p \in Peers |->
                    IF p = 1
                    THEN [commandStartGame(HoldingHost, 1).app
                             EXCEPT !.game.called = called]
                    ELSE IF p = 2
                    THEN [PlayingGuest EXCEPT !.game.called = called]
                    ELSE NewApp(p)]
       /\ net = EmptyBag
       /\ quiet = TRUE
       /\ budget = [start |-> 0, reset |-> 0, claim |-> MaxClaims + 1,
                    dup |-> 0, post |-> 0]
       /\ loop = NoLoop

LastDrawNext ==
    \/ \E p \in Peers, e \in BagToSet(net), seed \in Seeds : Deliver(p, e, seed)
    \/ \E p \in Peers, seed \in Seeds : CallingInterval(p, seed)
    \/ \E p \in Peers : \E verdict \in BagToSet(app[p].claimTimeouts) :
           ClaimTimeout(p, verdict)
    \/ \E p \in Peers : ClickClaim(p)

SpecLastDraw ==
    /\ LastDrawInit
    /\ [][LastDrawNext]_vars
    /\ \A p \in Peers :
           /\ WF_vars(\E e \in BagToSet(net), seed \in Seeds : Deliver(p, e, seed))
           /\ WF_vars(\E seed \in Seeds : CallingInterval(p, seed))
           /\ WF_vars(\E verdict \in BagToSet(app[p].claimTimeouts) :
                          ClaimTimeout(p, verdict))

\* -------------------------------------------------------------- the calls
\* Host and guest are ready for a game, the first of the session or one
\* after a win and a reset, which leaves them as they were before the
\* first.  The host starts it and draws; the relay hands every message
\* over once, and the calls to a page in the order in which they were sent.

MirrorInit ==
    /\ page = [p \in Peers |-> IF p <= 2 THEN "open" ELSE "unopened"]
    /\ app = [p \in Peers |-> IF p = 1 THEN ReadyHost
                               ELSE IF p = 2 THEN ReadyGuest ELSE NewApp(p)]
    /\ ReadyHost = getReady(commandResetGame(WonHost).app)
    /\ ReadyGuest = commandResetGame(WonGuest).app
    /\ net = EmptyBag
    /\ quiet = TRUE
    /\ budget = [start |-> MaxStarts, reset |-> 0, claim |-> 0, dup |-> 0,
                 post |-> 0]
    /\ loop = NoLoop

\* No call that is in flight to the same page was sent before this one.
Oldest(e) ==
    \A f \in BagToSet(net) :
        (f.to = e.to /\ f.msg.command = "call")
        => Len(f.msg.calledNumbers) >= Len(e.msg.calledNumbers)

MirrorNext ==
    \/ \E p \in Peers, e \in BagToSet(net), seed \in Seeds :
           (e.msg.command = "call" => Oldest(e)) /\ Deliver(p, e, seed)
    \/ \E p \in Peers, seed \in Seeds : CallingInterval(p, seed)
    \/ \E p \in Peers : ClickStart(p)

SpecMirror == MirrorInit /\ [][MirrorNext]_vars

\* ------------------------------------------------------------ the channel
\* Anything may be posted to the channel, and every page hands what it
\* receives to handleCommand: the fourteen commands with any fields, and
\* messages whose command is none of them.  One message is posted to two
\* pages that are in the lobby, in a game, in a game with a held page, or
\* after a win.

Tags ==
    {"hostidentify", "iamhost", "join", "joined", "hold", "leave", "players",
     "start", "reset", "call", "claim", "claimmade", "claimvalid",
     "claiminvalid"}

Posted ==
    {getGameHost, relayStartGame, relayResetGame, Plain("ping"), Plain("")}
    \cup {From(tag, clientID) :
              tag \in {"iamhost", "join", "joined", "hold", "leave", "Join"},
              clientID \in Peers}
    \cup {About(tag, claimer) :
              tag \in {"claimmade", "claimvalid", "claiminvalid", "claimed"},
              claimer \in Peers}
    \cup {broadcastPlayers(players) : players \in {<<>>, <<2, 1>>}}
    \cup {callNumber(number, <<number>>) : number \in {1, MaxNumber}}
    \cup {claim(ReadyGuest.relay, gamecard) :
              gamecard \in {<<>>, commandStartGame(ReadyGuest, 1).app.game.card}}

DispatchInit ==
    /\ page = [p \in Peers |-> IF p <= 2 THEN "open" ELSE "unopened"]
    /\ \E pair \in {<<ReadyHost, ReadyGuest>>,
                     <<HoldingHost, commandStartGame(ReadyGuest, 1).app>>,
                     <<HoldingHost, HeldGuest>>,
                     <<WonHost, WonGuest>>} :
           app = [p \in Peers |-> IF p = 1 THEN pair[1]
                                  ELSE IF p = 2 THEN pair[2] ELSE NewApp(p)]
    /\ net = EmptyBag
    /\ quiet = FALSE
    /\ budget = [start |-> 0, reset |-> 0, claim |-> 0, dup |-> 0,
                 post |-> MaxPosted]
    /\ loop = NoLoop

DispatchNext ==
    \/ \E msg \in Posted : Post(msg)
    \/ \E p \in Peers, e \in BagToSet(net), seed \in Seeds : Deliver(p, e, seed)

SpecDispatch == DispatchInit /\ [][DispatchNext]_vars

\* ---------------------------------------------------------- the two hosts
\* Two pages have been opened one after the other and neither has heard of
\* a host: the requests for the host to identify itself met no host.  Both
\* election timeouts are pending.  From there the pages elect, join and
\* start the game, and one message of any kind is posted to the channel by another
\* client.

SplitInit ==
    /\ page = [p \in Peers |-> IF p <= 2 THEN "open" ELSE "unopened"]
    /\ app = [p \in Peers |-> IF p <= 2 THEN constructor(p).app ELSE NewApp(p)]
    /\ net = EmptyBag
    /\ quiet = FALSE
    /\ budget = [start |-> MaxStarts, reset |-> 0, claim |-> 0, dup |-> 0,
                 post |-> MaxPosted]
    /\ loop = NoLoop

SplitNext ==
    \/ \E p \in Peers : HostWaitTimeout(p)
    \/ \E msg \in Posted : Post(msg)
    \/ \E p \in Peers, e \in BagToSet(net), seed \in Seeds : Deliver(p, e, seed)
    \/ \E p \in Peers : GetReadyInterval(p)
    \/ \E p \in Peers : ClickStart(p)

SpecSplit == SplitInit /\ [][SplitNext]_vars

\* ------------------------------------------------------ the election clock
\* The first page is open and its constructor has set the election timeout
\* with the delay that generateRandomNumber(5000, 8000) gave.  The clock
\* runs from the page's start: the timeout's callback runs when the delay
\* has passed, and a host's announcement may be handed to the page at any
\* moment, before that or after.

\* A faulty delay, in seconds where setTimeout takes milliseconds:
\* C37_ElectionWindow fails on it.
hostWaitDelayInSeconds(random) ==
    ((random * ((HostWaitMax \div 1000) - (HostWaitMin \div 1000) + 1))
         \div TimerResolution) + (HostWaitMin \div 1000)

\* generateRandomNumber(5000, 8000) where Math.random() is
\* random / TimerResolution.
hostWaitDelay(random) ==
    ((random * (HostWaitMax - HostWaitMin + 1)) \div TimerResolution) + HostWaitMin

\* The timeout as the constructor sets it, at the moment 0.
hostWaitTimeoutSet(random) ==
    [generator |-> "hostWaitTimeout", delay |-> hostWaitDelay(random),
     set |-> 1, now |-> 0, runs |-> 0, ranAt |-> Nil]

\* The moments, in ms from the page's start, at which an announcement is
\* handed over.
Moments == {0, HostWaitMin - 1, HostWaitMin, HostWaitMax - 1, HostWaitMax}

ClockInit ==
    /\ page = [p \in Peers |-> IF p = 1 THEN "open" ELSE "unopened"]
    /\ app = [p \in Peers |-> IF p = 1 THEN constructor(p).app ELSE NewApp(p)]
    /\ net = EmptyBag
    /\ quiet = TRUE
    /\ budget = [start |-> 0, reset |-> 0, claim |-> 0, dup |-> 0,
                 post |-> MaxPosted]
    /\ \E random \in 0..(TimerResolution - 1) : loop = hostWaitTimeoutSet(random)

\* The delay has passed with the timeout pending: its callback runs.
HostWaitElapsed(p) ==
    /\ loop.generator = "hostWaitTimeout"
    /\ page[p] = "open"
    /\ app[p].hostWaitTimeout
    /\ loop' = [loop EXCEPT !.now = loop.delay, !.runs = @ + 1,
                            !.ranAt = loop.delay]
    /\ \E r \in {possiblyAssumeHost([app[p] EXCEPT !.hostWaitTimeout = FALSE])} :
           /\ app' = [app EXCEPT ![p] = r.app]
           /\ net' = net (+) Fanout(r.sent, Open, app')
    /\ UNCHANGED <<page, quiet, budget>>

\* Page p is handed the announcement of another host at the moment: before
\* the delay has passed if the timeout is pending.
HostAnnounced(p, moment) ==
    /\ loop.generator = "hostWaitTimeout"
    /\ page[p] = "open"
    /\ budget.post > 0
    /\ moment >= loop.now
    /\ app[p].hostWaitTimeout => moment < loop.delay
    /\ budget' = [budget EXCEPT !.post = @ - 1]
    /\ loop' = [loop EXCEPT !.now = moment]
    /\ \E q \in Peers \ {p} :
           \E r \in {handleCommand(app[p], From("iamhost", q), 1)} :
               /\ app' = [app EXCEPT ![p] = r.app]
               /\ net' = net (+) Fanout(r.sent, Open, app')
    /\ UNCHANGED <<page, quiet>>

ClockNext ==
    \/ \E p \in Peers : HostWaitElapsed(p)
    \/ \E p \in Peers, moment \in Moments : HostAnnounced(p, moment)

SpecClock == ClockInit /\ [][ClockNext]_vars

\* ----------------------------------------------- the generators, by draws
\* A call of generateRandomNumbers or of generateRandomNumberNotAlreadyCalled
\* is followed pass by pass of its while loop, Math.random() giving any of
\* its values in each pass.

DrawValues == (0 - 1)..DrawSpan
Randoms == 0..(RandomResolution - 1)

\* The sequence of the numbers of a set, in ascending order.
RECURSIVE Ascending(_)
Ascending(numbers) ==
    IF numbers = {} THEN <<>>
    ELSE LET least == CHOOSE n \in numbers : \A m \in numbers : n <= m
         IN <<least>> \o Ascending(numbers \ {least})

\* generateRandomNumbers(min, max, length) at its entry.
generateRandomNumbersEntry(min, max, length) ==
    [generator |-> "generateRandomNumbers", min |-> min, max |-> max,
     length |-> length, numbers |-> <<>>, passes |-> 0, returned |-> FALSE]

\* A faulty pass of the loop of generateRandomNumbers, which does not look
\* whether the number is there already: C14_UniqueDraw fails on it.
generateRandomNumbersPassRepeating(l, random) ==
    IF Len(l.numbers) < l.length
    THEN [l EXCEPT !.numbers = Append(@, generateRandomNumber(l.min, l.max, random)),
                   !.passes = 1 - @]
    ELSE [l EXCEPT !.returned = TRUE]

\* The test of the while loop of generateRandomNumbers and one pass of it,
\* or the return.
generateRandomNumbersPass(l, random) ==
    IF Len(l.numbers) < l.length
    THEN LET r == generateRandomNumber(l.min, l.max, random)
         IN [l EXCEPT !.numbers = IF r \notin Range(@) THEN Append(@, r) ELSE @,
                      !.passes = 1 - @]
    ELSE [l EXCEPT !.returned = TRUE]

\* generateRandomNumberNotAlreadyCalled(min, max, array) at its entry: the
\* local `number` is <<>> for false and <<r>> for the number r.
generateRandomNumberNotAlreadyCalledEntry(min, max, array) ==
    [generator |-> "generateRandomNumberNotAlreadyCalled", min |-> min,
     max |-> max, array |-> array, number |-> <<>>, passes |-> 0,
     returned |-> FALSE]

\* !number
Falsy(number) == number = <<>> \/ number[1] = 0

\* The test of the while loop of generateRandomNumberNotAlreadyCalled and
\* one pass of it, or the return.
generateRandomNumberNotAlreadyCalledPass(l, random) ==
    IF Falsy(l.number)
    THEN LET r == generateRandomNumber(l.min, l.max, random)
         IN [l EXCEPT !.number = IF r \notin Range(l.array) THEN <<r>> ELSE @,
                      !.passes = 1 - @]
    ELSE [l EXCEPT !.returned = TRUE]

UniquePass(random) ==
    /\ loop.generator = "generateRandomNumbers"
    /\ ~loop.returned
    /\ loop' = generateRandomNumbersPass(loop, random)
    /\ UNCHANGED <<page, app, net, quiet, budget>>

ExcludingPass(random) ==
    /\ loop.generator = "generateRandomNumberNotAlreadyCalled"
    /\ ~loop.returned
    /\ loop' = generateRandomNumberNotAlreadyCalledPass(loop, random)
    /\ UNCHANGED <<page, app, net, quiet, budget>>

\* A pass in which Math.random() makes generateRandomNumber give the value.
ExcludingPassDrawing(value) ==
    \E random \in Randoms :
        /\ generateRandomNumber(loop.min, loop.max, random) = value
        /\ ExcludingPass(random)

NoPages ==
    /\ page = [p \in Peers |-> "unopened"]
    /\ app = [p \in Peers |-> NewApp(p)]
    /\ net = EmptyBag
    /\ quiet = TRUE
    /\ budget = [start |-> 0, reset |-> 0, claim |-> 0, dup |-> 0,
                 post |-> 0]

\* generateRandomNumbers is called with min <= max and a length that the
\* range can fill.
UniqueInit ==
    /\ NoPages
    /\ \E min \in DrawValues, max \in DrawValues :
           /\ min <= max
           /\ \E length \in 0..(max - min + 1) :
                  loop = generateRandomNumbersEntry(min, max, length)

UniqueNext == \E random \in Randoms : UniquePass(random)

SpecUnique == UniqueInit /\ [][UniqueNext]_vars

\* generateRandomNumberNotAlreadyCalled is called with min <= max and an
\* array that leaves a value of the range out.  Every value of the range is
\* drawn again and again.
ExcludingInit ==
    /\ NoPages
    /\ \E min \in DrawValues, max \in DrawValues :
           /\ min <= max
           /\ \E excluded \in SUBSET DrawValues :
                  /\ (min..max) \ excluded # {}
                  /\ loop = generateRandomNumberNotAlreadyCalledEntry(
                                min, max, Ascending(excluded))

ExcludingNext == \E random \in Randoms : ExcludingPass(random)

SpecExcluding ==
    /\ ExcludingInit
    /\ [][ExcludingNext]_vars
    /\ \A value \in DrawValues : WF_vars(ExcludingPassDrawing(value))

\* The scenarios follow one another: the lobby reaches the state the game
\* starts from, and the game reaches the state the rematch starts from.
GameInitReached ==
    app[1] = ReadyHost /\ app[2] = ReadyGuest /\ net = EmptyBag
RematchInitReached ==
    app[1] = WonHost /\ app[2] = WonGuest /\ net = EmptyBag
HoldInitReached ==
    app[1] = HoldingHost /\ app[2] = HeldGuest /\ net = EmptyBag

\* ------------------------------------------------------------ the claims

\* Page p handles the message e in this step.
Handles(p, e) ==
    \E seed \in Seeds : Deliver(p, e, seed) \/ Redeliver(p, e, seed)

\* What page p sends when it handles the message.
Sends(p, msg) == handleCommand(app[p], msg, 1).sent

InFlight(p, command) ==
    \E e \in BagToSet(net) : e.to = p /\ e.msg.command = command

\* C1: whenever a host handles a join request naming X, then if its status
\* is joining, X is appended to its roster and it sends joined(X) followed
\* by the players broadcast of the new roster; otherwise it sends one hold
\* and its roster is unchanged.
C1_JoinGating ==
    [][\A p \in Peers : \A e \in BagToSet(net) :
          (e.msg.command = "join" /\ app[p].party.role = "host" /\ Handles(p, e))
          => IF app[p].game.status = "joining"
             THEN /\ app'[p].party.players =
                         Append(app[p].party.players, e.msg.clientID)
                  /\ Sends(p, e.msg) =
                         <<joined(e.msg.clientID),
                           broadcastPlayers(app'[p].party.players)>>
             ELSE /\ Sends(p, e.msg) = <<hold(app[p].relay)>>
                  /\ app'[p].party.players = app[p].party.players]_vars

\* A host that let a page in has started the game and has answered a later
\* join request with a hold.
C1_Reached ==
    \E p \in Peers :
        /\ app[p].party.role = "host"
        /\ app[p].game.status = "playing"
        /\ Len(app[p].party.players) = 2
        /\ \E e \in BagToSet(net) : e.msg = hold(app[p].relay)

\* C6: whenever the election timeout of a page fires while its roster is
\* empty, the page becomes host, its host is itself, its roster is itself
\* alone, and it sends one iamhost that carries its identity.
C6_ElectionAlone ==
    [][\A p \in Peers :
          (HostWaitTimeout(p) /\ app[p].party.players = <<>>)
          => /\ app'[p].party = [host |-> app[p].relay.clientID,
                                 role |-> "host",
                                 players |-> <<app[p].relay.clientID>>]
             /\ possiblyAssumeHost(app[p]).sent =
                    <<From("iamhost", app[p].relay.clientID)>>]_vars

\* A page has made itself host and its announcement is on its way.
C6_Reached ==
    \E p \in Peers :
        /\ app[p].party = [host |-> p, role |-> "host", players |-> <<p>>]
        /\ ~app[p].hostWaitTimeout
        /\ InFlight(p, "iamhost")

\* C9: whenever a page that is not host handles a players broadcast, its
\* roster becomes the broadcast's list, whatever it was, and handling the
\* broadcast once more would leave that roster as it is.
C9_RosterReplaced ==
    [][\A p \in Peers : \A e \in BagToSet(net) :
          (e.msg.command = "players" /\ app[p].party.role # "host" /\ Handles(p, e))
          => /\ app'[p].party.players = e.msg.players
             /\ commandUpdatePlayers(app'[p], e.msg).app.party.players =
                    app'[p].party.players]_vars

\* A page that is not host holds the roster of a broadcast that replaced
\* another roster: the host let the page in twice.
C9_Reached ==
    \E p \in Peers :
        /\ app[p].party.role # "host"
        /\ Len(app[p].party.players) > 2
        /\ ~InFlight(p, "players")

\* A row or a column of the 25-number card has all its numbers called.
FullLine(gamecard, called) ==
    \E line \in CardLines :
        \A position \in line : gamecard[position + 1] \in Range(called)

\* The host takes up the claim: the claimer is not disqualified.
TakesUp(p, msg) ==
    /\ msg.command = "claim"
    /\ app[p].party.role = "host"
    /\ msg.claimer \notin Range(app[p].game.disqualified)

\* C2: whenever the host judges a claim for a card of 25 numbers, verifyClaim
\* is true if and only if one of the five rows (positions 5r..5r+4) or of
\* the five columns (positions c, c+5, ..., c+20) of the card has all its
\* five numbers in the host's called list, a diagonal counting for nothing,
\* and that is the verdict the host will give.
C2_VerifyClaim ==
    [][\A p \in Peers : \A e \in BagToSet(net) :
          (TakesUp(p, e.msg) /\ Len(e.msg.gamecard) = 25 /\ Handles(p, e))
          => /\ verifyClaim(app[p], e.msg.gamecard) =
                    FullLine(e.msg.gamecard, app[p].game.called)
             /\ app'[p].claimTimeouts = app[p].claimTimeouts (+)
                    SetToBag({[claimer |-> e.msg.claimer,
                               valid |-> FullLine(e.msg.gamecard,
                                                  app[p].game.called)]})]_vars

\* The host has judged valid the claim of a page on whose card a column is
\* fully called and no row is.
C2_Reached ==
    \E p, q \in Peers :
        /\ BagIn([claimer |-> q, valid |-> TRUE], app[p].claimTimeouts)
        /\ Len(app[q].game.card) = 25
        /\ \E c \in 0..4 : \A position \in ColumnAt(c) :
               app[q].game.card[position + 1] \in Range(app[p].game.called)
        /\ \A r \in 0..4 : \E position \in RowAt(r) :
               app[q].game.card[position + 1] \notin Range(app[p].game.called)

\* C3: whenever the host takes up a claim for a card without a fully called
\* row or column, it schedules an invalid verdict and no valid one; and
\* whenever the timeout of an invalid verdict fires, the claimer is among
\* the host's disqualified players, the host sends one claiminvalid that
\* names the claimer and nothing else, the verdict is no longer pending, and
\* the calling interval runs.
C3_InvalidClaimOutcome ==
    [][\A p \in Peers :
          /\ \A e \in BagToSet(net) :
                 (/\ TakesUp(p, e.msg)
                  /\ Len(e.msg.gamecard) = 25
                  /\ ~FullLine(e.msg.gamecard, app[p].game.called)
                  /\ Handles(p, e))
                 => app'[p].claimTimeouts = app[p].claimTimeouts (+)
                        SetToBag({[claimer |-> e.msg.claimer, valid |-> FALSE]})
          /\ \A verdict \in BagToSet(app[p].claimTimeouts) :
                 (~verdict.valid /\ ClaimTimeout(p, verdict))
                 => /\ verdict.claimer \in Range(app'[p].game.disqualified)
                    /\ claimTimeout(app[p], verdict).sent =
                           <<About("claiminvalid", verdict.claimer)>>
                    /\ CopiesIn(verdict, app'[p].claimTimeouts) =
                           CopiesIn(verdict, app[p].claimTimeouts) - 1
                    /\ app'[p].callingInterval.handle]_vars

\* The host has disqualified a claimer, no verdict is pending and the
\* calling interval runs.
C3_Reached ==
    \E p \in Peers :
        /\ app[p].party.role = "host"
        /\ app[p].game.disqualified # <<>>
        /\ app[p].claimTimeouts = EmptyBag
        /\ app[p].callingInterval.handle

\* C4: whenever a page handles a claimvalid its status becomes finished, and
\* a finished status stays until the page handles a reset.
C4_FinishedAfterClaimValid ==
    [][\A p \in Peers :
          /\ \A e \in BagToSet(net) :
                 (e.msg.command = "claimvalid" /\ Handles(p, e))
                 => app'[p].game.status = "finished"
          /\ (/\ app[p].game.status = "finished"
              /\ ~\E e \in BagToSet(net) : e.msg.command = "reset" /\ Handles(p, e))
             => app'[p].game.status = "finished"]_vars

\* C5: whenever the host handles a claim whose claimer is among its
\* disqualified players, it sends nothing, schedules no verdict, and its
\* calling interval is as it was.
C5_DisqualifiedIgnored ==
    [][\A p \in Peers : \A e \in BagToSet(net) :
          (/\ e.msg.command = "claim"
           /\ app[p].party.role = "host"
           /\ e.msg.claimer \in Range(app[p].game.disqualified)
           /\ Handles(p, e))
          => /\ Sends(p, e.msg) = <<>>
             /\ app'[p].claimTimeouts = app[p].claimTimeouts
             /\ app'[p].callingInterval = app[p].callingInterval]_vars

\* The one claim of the run has been handed over twice and nothing else
\* has: the host has disqualified the claimer for the first, once, and no
\* verdict is pending, so that it has ignored the second.
C5_Reached ==
    \E p \in Peers :
        /\ app[p].party.role = "host"
        /\ budget.claim = 0 /\ budget.dup = 0 /\ budget.reset = MaxResets
        /\ net = EmptyBag
        /\ \A q \in Peers : page[q] = "open" => app[q].game.called = app[p].game.called
        /\ Len(app[p].game.disqualified) = 1
        /\ app[p].claimTimeouts = EmptyBag

\* C7: whenever a page handles a start, its status becomes playing, its card
\* becomes 25 pairwise distinct integers in 1..90, no ready-poll interval of
\* it runs any more, and a calling interval is started on it if and only if
\* it is host.
C7_StartTransition ==
    [][\A p \in Peers : \A e \in BagToSet(net) :
          (e.msg.command = "start" /\ Handles(p, e))
          => /\ app'[p].game.status = "playing"
             /\ Len(app'[p].game.card) = 25
             /\ \A i \in DOMAIN app'[p].game.card : app'[p].game.card[i] \in 1..90
             /\ \A i, j \in DOMAIN app'[p].game.card :
                    i # j => app'[p].game.card[i] # app'[p].game.card[j]
             /\ Running(app'[p].getReadyInterval) = 0
             /\ (Running(app'[p].callingInterval) > Running(app[p].callingInterval))
                    <=> (app[p].party.role = "host")]_vars

\* C8: whenever a page handles a reset, its game becomes the initial one
\* (status joining; card, called list and disqualified players empty), a
\* ready-poll interval of it runs, and its party (role, host, roster) and
\* its waitingToJoin flag are as they were.
C8_ResetTransition ==
    [][\A p \in Peers : \A e \in BagToSet(net) :
          (e.msg.command = "reset" /\ Handles(p, e))
          => /\ app'[p].game = [status |-> "joining", card |-> <<>>,
                                called |-> <<>>, disqualified |-> <<>>]
             /\ app'[p].getReadyInterval.handle
             /\ app'[p].party = app[p].party
             /\ app'[p].waitingToJoin = app[p].waitingToJoin]_vars

\* A page of the party of two has handled the reset of a game that was
\* won: it is back in the lobby with its roster.
C8_Reached ==
    \E p \in Peers :
        /\ budget.reset <= MaxResets
        /\ ~InFlight(p, "reset")
        /\ app[p].game.status = "joining"
        /\ app[p].game.card = <<>>
        /\ app[p].game.called = <<>>
        /\ Len(app[p].party.players) = 2
        /\ app[p].getReadyInterval.handle

\* C10: on every page, the called list holds integers in 1..90 only and no
\* value twice.
C10_CalledUnique ==
    \A p \in Peers :
        /\ \A i \in DOMAIN app[p].game.called : app[p].game.called[i] \in 1..90
        /\ \A i, j \in DOMAIN app[p].game.called :
               i # j => app[p].game.called[i] # app[p].game.called[j]

\* C11: in the hold scenario, where the page that waits to join has handled
\* a hold, the page goes on asking for as long as it waits: in every state
\* its retry timeout is pending, or a join of it or an answer to one is on
\* its way.
C11_RetryKeptUp ==
    \A p \in Peers :
        (page[p] = "open" /\ app[p].party.role = "player" /\ app[p].waitingToJoin)
        => \/ app[p].gameWaitingTimeout
           \/ \E e \in BagToSet(net) : e.msg = From("join", app[p].relay.clientID)
           \/ InFlight(p, "hold")
           \/ InFlight(p, "joined")

\* C12: on every open page, the start button is enabled only if the page is
\* host and its roster has more than one entry.
C12_StartButtonGated ==
    \A p \in Peers :
        (page[p] = "open" /\ app[p].elements.startButton = "enabled")
        => (app[p].party.role = "host" /\ Len(app[p].party.players) > 1)

\* C13: after every step, the roster of an open page that is host begins
\* with the page's own identity; and the roster of a host changes only by
\* the host's own entry at its promotion, by a new entry at the end, or by
\* the removal of a player's entries, the others keeping their order.
C13_HostFirst ==
    [][\A p \in Peers :
          (page'[p] = "open" /\ app'[p].party.role = "host")
          => LET before == app[p].party.players
                 after == app'[p].party.players
             IN /\ after # <<>>
                /\ after[1] = app'[p].relay.clientID
                /\ \/ after = before
                   \/ before = <<>> /\ after = <<app'[p].relay.clientID>>
                   \/ \E q \in Peers : after = Append(before, q)
                   \/ \E q \in Peers \ {p} :
                          after = SelectSeq(before, LAMBDA player : player # q)]_vars

\* A host that let a page in and saw it leave is alone in its roster again.
C13_Reached ==
    \E p, q \in Peers :
        /\ page[p] = "open" /\ page[q] = "closed"
        /\ app[p].party.role = "host"
        /\ app[p].party.players = <<p>>
        /\ app[p].elements.startButton = "enabled"
        /\ ~InFlight(p, "leave")

\* C14: whenever generateRandomNumbers(min, max, count), called with
\* min <= max and count <= max - min + 1, returns, what it returns is a
\* sequence of exactly count integers of min..max, no two of them equal.
C14_UniqueDraw ==
    (loop.generator = "generateRandomNumbers" /\ loop.returned)
    => /\ Len(loop.numbers) = loop.length
       /\ \A i \in DOMAIN loop.numbers : loop.numbers[i] \in loop.min..loop.max
       /\ \A i, j \in DOMAIN loop.numbers :
              i # j => loop.numbers[i] # loop.numbers[j]

\* generateRandomNumbers has returned as many numbers as the range has, and
\* not in ascending order.
C14_Reached ==
    /\ loop.generator = "generateRandomNumbers"
    /\ loop.returned
    /\ loop.length = loop.max - loop.min + 1
    /\ loop.length > 2
    /\ loop.numbers[1] > loop.numbers[2]

\* C15: generateRandomNumberNotAlreadyCalled(min, max, excluded), called
\* with min <= max and a list that leaves a value of min..max out, returns
\* in the end, every value of the range being drawn again and again, and
\* what it returns is an integer of min..max that is not in the list.
C15_ExcludingDraw ==
    /\ <>(loop.returned)
    /\ [](loop.returned
          => /\ loop.number # <<>>
             /\ loop.number[1] \in loop.min..loop.max
             /\ loop.number[1] \notin Range(loop.array))

\* The handler that stands for a tag, applied once to the message.
Handler(a, command, seed) ==
    IF command.command = "hostidentify" THEN commandHostIdentify(a)
    ELSE IF command.command = "iamhost" THEN commandHostIdentified(a, command)
    ELSE IF command.command = "join" THEN commandJoinGame(a, command)
    ELSE IF command.command = "joined" THEN commandJoinedGame(a, command)
    ELSE IF command.command = "hold" THEN commandHold(a)
    ELSE IF command.command = "leave" THEN commandLeaveGame(a, command)
    ELSE IF command.command = "players" THEN commandUpdatePlayers(a, command)
    ELSE IF command.command = "start" THEN commandStartGame(a, seed)
    ELSE IF command.command = "reset" THEN commandResetGame(a)
    ELSE IF command.command = "call" THEN commandCall(a, command)
    ELSE IF command.command = "claim" THEN commandClaim(a, command)
    ELSE IF command.command = "claimmade" THEN commandClaimMade(a, command)
    ELSE IF command.command = "claimvalid" THEN commandClaimValid(a, command)
    ELSE commandClaimInvalid(a, command)

\* C16: a page that is handed a message whose tag is one of the fourteen
\* does what the handler of that tag does, once, and nothing else; handed a
\* message with any other tag it changes nothing of its state, timers
\* included, and sends nothing: the message is gone from the channel and
\* that is all.
C16_DispatcherRouting ==
    [][\A p \in Peers, e \in BagToSet(net), seed \in Seeds :
          Deliver(p, e, seed)
          => IF e.msg.command \in Tags
             THEN LET handled == Handler(app[p], e.msg, seed)
                  IN /\ app' = [app EXCEPT ![p] = handled.app]
                     /\ net' = (net (-) SetToBag({e}))
                               (+) Fanout(handled.sent, Open, app')
             ELSE /\ app' = app
                  /\ net' = net (-) SetToBag({e})]_vars

\* A message with an unknown tag has been handed to the host, whose draw
\* interval is pending, and is still to come to the guest.
C16_Reached ==
    /\ budget.post = 0
    /\ InFlight(2, "ping") /\ ~InFlight(1, "ping")
    /\ Running(app[1].callingInterval) = 1

\* C17: a page that handles an iamhost while its role is player keeps the
\* role of player, records the announced host and has no election timeout
\* pending afterwards, whether one was pending or not; and a page with the
\* role of player that has recorded a host (which only the handling of an
\* iamhost makes it do) keeps the role of player, the record and no election
\* timeout in every step, whatever happens to that host's page.
C17_NoSelfPromotion ==
    [][\A p \in Peers :
          /\ \A e \in BagToSet(net) :
                 (/\ e.msg.command = "iamhost"
                  /\ app[p].party.role = "player"
                  /\ Handles(p, e))
                 => /\ app'[p].party.role = "player"
                    /\ app'[p].party.host = e.msg.clientID
                    /\ ~app'[p].hostWaitTimeout
          /\ (app[p].party.role = "player" /\ app[p].party.host # Nil)
             => /\ app'[p].party.role = "player"
                /\ app'[p].party.host # Nil
                /\ ~app'[p].hostWaitTimeout]_vars

\* A page with the role of player has recorded a host whose page has been
\* closed since, and has nothing more to receive.
C17_Reached ==
    \E p, q \in Peers :
        /\ page[p] = "open" /\ page[q] = "closed"
        /\ app[p].party.role = "player"
        /\ app[p].party.host = q
        /\ app[p].party.players = <<>>
        /\ OnlyTo(p, net) = EmptyBag

\* C18: two pages can have the role of host at the same time, both election
\* timeouts firing while both rosters are empty; a page that has the role
\* of host has it after every step, whatever message it handles and
\* whatever timer fires, and its roster is the same after it handles a
\* players broadcast, the other host's included.
C18_SplitBrain ==
    [][\A p \in Peers :
          app[p].party.role = "host"
          => /\ app'[p].party.role = "host"
             /\ \A e \in BagToSet(net) :
                    (/\ e.msg.command = "players"
                     /\ \E seed \in Seeds : Deliver(p, e, seed))
                    => app'[p].party.players = app[p].party.players]_vars

\* Both pages have the role of host, both election timeouts having fired
\* on empty rosters.  The roster <<2, 1>>, which is what host 2 broadcasts
\* when it lets page 1 in, has been broadcast: host 1 has been handed its
\* copy, which only a host leaves its roster <<1>>, and host 2's copy is
\* still to come.
C18_Reached ==
    /\ \A p \in {1, 2} :
           /\ page[p] = "open"
           /\ app[p].party.role = "host"
           /\ app[p].party.players = <<p>>
    /\ budget.post = 0
    /\ BagIn([to |-> 2, msg |-> broadcastPlayers(<<2, 1>>)], net)
    /\ ~InFlight(1, "players")

\* The state in which the two hosts scenario begins comes about in the
\* lobby: both pages are open, nothing is in flight, neither has a host.
SplitInitReached ==
    /\ \A p \in {1, 2} : page[p] = "open" /\ app[p] = constructor(p).app
    /\ net = EmptyBag

\* C19: while a claim that the host has accepted awaits its verdict (the
\* timeout that sends claimvalid or claiminvalid for it is pending), no
\* draw interval of the host fires: the host draws no number and sends no
\* call, whether one claim awaits its verdict or several.
C19_PausedDuringArbitration ==
    [][\A p \in Peers, seed \in Seeds :
          app[p].claimTimeouts # EmptyBag => ~CallingInterval(p, seed)]_vars

\* The state in which the arbitration scenario begins comes about in the
\* game: both pages have handled the start.
ArbitrationInitReached ==
    /\ app[1] = HoldingHost /\ app[2] = PlayingGuest
    /\ net = EmptyBag

\* C20: a page never has more than one draw interval pending, so that the
\* one whose handle it holds, which pauseCalling clears, is the only one
\* that fires.
C20_SingleDrawLoop ==
    \A p \in Peers : Running(app[p].callingInterval) <= 1

\* C21: the host's draws stop once its called list holds all 90 numbers:
\* in no state is a draw interval of a page pending while every number is
\* in its called list, and no page is caught in a draw that does not end.
C21_HaltOnExhaustion ==
    \A p \in Peers :
        /\ page[p] # "frozen"
        /\ Exhausted(app[p]) => Running(app[p].callingInterval) = 0

\* The state in which the overlapping claims scenario begins comes about
\* in the game: five numbers drawn and heard, no claim lodged.
OverlapInitReached ==
    /\ app[1] = Drawn(HoldingHost, 1, RowLength)
    /\ app[2] = Heard(PlayingGuest, app[1].game.called, RowLength)
    /\ net = EmptyBag

\* C22: when a host has handled a reset, no draw interval and no timeout of
\* a claim's verdict is pending on it.
C22_ResetDiscardsTimers ==
    [][\A p \in Peers, e \in BagToSet(net) :
          (/\ e.msg.command = "reset"
           /\ app[p].party.role = "host"
           /\ \E seed \in Seeds : Deliver(p, e, seed))
          => /\ Running(app'[p].callingInterval) = 0
             /\ app'[p].claimTimeouts = EmptyBag]_vars

\* C23: a draw interval is pending on a host only while the status of its
\* game is playing.
C23_DrawsOnlyWhilePlaying ==
    \A p \in Peers :
        (app[p].party.role = "host" /\ Running(app[p].callingInterval) > 0)
        => app[p].game.status = "playing"

\* C24: once a host has sent a claimvalid it draws no number until it
\* handles the next start.  No start is handled in the overlapping claims:
\* a host has sent a claimvalid when its copy is still to come, when its
\* page has the class finished, or when its game has been reset to joining
\* (the reset button is enabled by a claimvalid only).
C24_NoDrawsAfterWin ==
    [][\A p \in Peers, seed \in Seeds :
          (/\ app[p].party.role = "host"
           /\ \/ InFlight(p, "claimvalid")
              \/ "finished" \in app[p].classList
              \/ app[p].game.status = "joining")
          => ~CallingInterval(p, seed)]_vars

\* C25: a host sends at most one claimvalid between a start and the reset
\* that follows: the timeout of a valid verdict does not fire on a host
\* that has sent a claimvalid in the same game, which is one whose copy of
\* it is still to come or whose page has the class finished.
C25_SingleWinner ==
    [][\A p \in Peers :
          \A verdict \in BagToSet(app[p].claimTimeouts) :
              (/\ verdict.valid
               /\ \/ InFlight(p, "claimvalid")
                  \/ "finished" \in app[p].classList)
              => ~ClaimTimeout(p, verdict)]_vars

\* C26: a host that accepts a claim sends claimmade and sets one timeout
\* for the verdict that verifyClaim gives for the claimed card and the
\* called list of that moment; a timeout that fires sends that one verdict,
\* naming the claimer, and is gone; and every verdict that is pending is
\* sent in the end.
C26_DecidedOnce ==
    /\ [][\A p \in Peers, e \in BagToSet(net) :
             (/\ e.msg.command = "claim"
              /\ Sends(p, e.msg) # <<>>
              /\ \E seed \in Seeds : Deliver(p, e, seed))
             => /\ Sends(p, e.msg) = <<claimMade(e.msg.claimer)>>
                /\ app'[p].claimTimeouts
                       = app[p].claimTimeouts
                         (+) SetToBag({Verdict(e.msg.claimer,
                                               verifyClaim(app[p], e.msg.gamecard))})]_vars
    /\ [][\A p \in Peers :
             \A verdict \in BagToSet(app[p].claimTimeouts) :
                 ClaimTimeout(p, verdict)
                 => /\ app'[p].claimTimeouts
                           = app[p].claimTimeouts (-) SetToBag({verdict})
                    /\ claimTimeout(app[p], verdict).sent
                           = <<IF verdict.valid THEN claimValid(verdict.claimer)
                               ELSE claimInvalid(verdict.claimer)>>]_vars
    /\ \A p \in Peers :
           (app[p].claimTimeouts # EmptyBag) ~> (app[p].claimTimeouts = EmptyBag)

C28_DisqualifiedMirror ==
    \A p \in Peers, q \in Peers :
        (/\ page[p] = "open" /\ page[q] = "open"
         /\ app[p].party.role = "host"
         /\ app[q].party.role # "host"
         /\ ~InFlight(q, "claiminvalid"))
        => Range(app[q].game.disqualified) = Range(app[p].game.disqualified)

\* C29: when the election timeout of a page fires while its roster holds
\* an entry, the page keeps its role, the host it knows and its roster,
\* and sends nothing.
C29_PromotionSkipped ==
    [][\A p \in Peers :
          (app[p].party.players # <<>> /\ HostWaitTimeout(p))
          => /\ app'[p].party = app[p].party
             /\ app'[p].party.role = "player"
             /\ net' = net]_vars

\* A page's election timeout has fired (none is pending, and no host
\* announcement was there to clear it: the page knows no host) and the page
\* is a player with a roster.
C29_Reached ==
    \E p \in Peers :
        /\ page[p] = "open"
        /\ ~app[p].hostWaitTimeout
        /\ app[p].party.host = Nil
        /\ app[p].party.role = "player"
        /\ app[p].party.players # <<>>

\* C30: a page that handles a joined naming itself waits to join no more
\* and has no retry timeout pending afterwards; and a page that waits to
\* join no more stays so, has no retry timeout pending after any step, and
\* sends no join request, whatever it handles.
C30_NoJoinAfterJoined ==
    [][\A p \in Peers :
          /\ \A e \in BagToSet(net) :
                 (/\ e.msg = joined(p)
                  /\ page[p] = "open"
                  /\ Handles(p, e))
                 => /\ ~app'[p].waitingToJoin
                    /\ ~app'[p].gameWaitingTimeout
          /\ (page[p] = "open" /\ ~app[p].waitingToJoin)
             => /\ ~app'[p].waitingToJoin
                /\ ~app'[p].gameWaitingTimeout
                /\ \A q \in Peers :
                       CopiesIn([to |-> q, msg |-> joinGame(app[p].relay)], net')
                           <= CopiesIn([to |-> q, msg |-> joinGame(app[p].relay)], net)]_vars

\* A page has joined: it is in the host's roster, waits no more, and has
\* since been handed the host's announcement again, which the relay still
\* holds; the host is playing, so that a join would be answered by a hold.
C30_Reached ==
    \E p, q \in Peers :
        /\ page[p] = "open"
        /\ app[p].party.role = "player"
        /\ ~app[p].waitingToJoin
        /\ app[q].party.role = "host"
        /\ app[q].game.status = "playing"
        /\ budget.dup = 0
        /\ BagIn([to |-> p, msg |-> identifyAsHost(app[q].relay)], net)

\* The roster without X, entry by entry.
RECURSIVE Without(_, _)
Without(players, X) ==
    IF players = <<>> THEN <<>>
    ELSE IF Head(players) = X THEN Without(Tail(players), X)
         ELSE <<Head(players)>> \o Without(Tail(players), X)

\* C31: whenever a host handles a leave naming X, in any status and whether
\* X is in its roster or not, X occurs nowhere in its roster afterwards, the
\* other entries are kept in their order, and it sends one players
\* broadcast that carries the resulting roster.
C31_LeaveHandling ==
    [][\A p \in Peers : \A e \in BagToSet(net) :
          (/\ e.msg.command = "leave"
           /\ e.to = p
           /\ app[p].party.role = "host"
           /\ Handles(p, e))
          => /\ e.msg.clientID \notin Range(app'[p].party.players)
             /\ app'[p].party.players =
                    Without(app[p].party.players, e.msg.clientID)
             /\ Sends(p, e.msg) = <<broadcastPlayers(app'[p].party.players)>>]_vars

\* A host whose game is on is alone in its roster and the other page is
\* closed: the start button is enabled for two entries or more, so the
\* host has handled the other page's leave.
C31_Reached ==
    \E p \in Peers :
        /\ app[p].party.role = "host"
        /\ app[p].game.status = "playing"
        /\ app[p].party.players = <<p>>
        /\ \A q \in Peers \ {p} : page[q] = "closed"
        /\ net = EmptyBag

\* A message that page a is not entitled to act on.
Gated(a, msg) ==
    \/ /\ msg.command \in {"hostidentify", "join", "leave", "claim"}
       /\ a.party.role = "player"
    \/ msg.command = "players" /\ a.party.role = "host"
    \/ msg.command = "joined" /\ msg.clientID # a.relay.clientID
    \/ msg.command = "hold" /\ ~a.waitingToJoin

\* C32: whenever a page handles a message it is not entitled to act on
\* (hostidentify, join, leave or claim on a player; players on a host;
\* joined naming another page; hold on a page that does not wait to join),
\* its state and its timers are as before and nothing is sent: the message
\* is taken from the relay and no other is put there.
C32_Gating ==
    [][\A p \in Peers : \A e \in BagToSet(net) :
          (/\ e.to = p
           /\ Gated(app[p], e.msg)
           /\ Handles(p, e))
          => /\ app' = app
             /\ Sends(p, e.msg) = <<>>
             /\ net' = net (-) SetToBag({e})]_vars

\* A message that neither page is entitled to act on was posted, and one
\* page has handled its copy while the other's is still with the relay.
C32_Reached ==
    \E p, q \in Peers : \E msg \in Posted :
        /\ p # q
        /\ budget.post = 0
        /\ Gated(app[p], msg)
        /\ Gated(app[q], msg)
        /\ net = SetToBag({[to |-> q, msg |-> msg]})

\* C33: in every reachable state a page whose role is host has its own
\* identity as its host.
C33_HostIdentity ==
    \A p \in Peers :
        app[p].party.role = "host" => app[p].party.host = app[p].relay.clientID

\* C34: whenever a host sends a claimmade or a claimvalid naming X, X is in
\* its roster at that moment: the host accepts a claim of a page of its
\* roster only, and the timeout of a valid verdict fires for a claimer of
\* its roster only.
C34_RosterMembersWin ==
    [][\A p \in Peers :
          app[p].party.role = "host"
          => /\ \A e \in BagToSet(net) :
                    (/\ e.msg.command = "claim"
                     /\ e.to = p
                     /\ e.msg.claimer \notin Range(app[p].party.players)
                     /\ Handles(p, e))
                    => claimMade(e.msg.claimer) \notin Range(Sends(p, e.msg))
             /\ \A verdict \in BagToSet(app[p].claimTimeouts) :
                    (/\ verdict.valid
                     /\ verdict.claimer \notin Range(app[p].party.players))
                    => ~ClaimTimeout(p, verdict)]_vars

\* C35: when every message is handed over exactly once, no identity occurs
\* twice in the roster of a host.
C35_NoDuplicateEntries ==
    \A p \in Peers :
        app[p].party.role = "host"
        => \A i, j \in DOMAIN app[p].party.players :
               app[p].party.players[i] = app[p].party.players[j] => i = j

\* C36: in every reachable state, a page whose status is joining has an
\* empty card and an empty called list.
C36_CleanLobby ==
    \A p \in Peers :
        (page[p] = "open" /\ app[p].game.status = "joining")
        => /\ app[p].game.card = <<>>
           /\ app[p].game.called = <<>>

\* C37: the election timeout of a page is set once, with a delay d such
\* that 5000 <= d <= 8000; its callback runs once at most, never before
\* 5000 ms from the page's start, and while it is pending the delay has not
\* passed: by 8000 ms it has run or a host's announcement has cancelled it.
C37_ElectionWindow ==
    loop.generator = "hostWaitTimeout"
    => /\ loop.set = 1
       /\ HostWaitMin <= loop.delay /\ loop.delay <= HostWaitMax
       /\ loop.runs <= 1
       /\ loop.runs = 1 => (HostWaitMin <= loop.ranAt /\ loop.ranAt <= HostWaitMax)
       /\ \A p \in Peers :
              app[p].hostWaitTimeout => (loop.runs = 0 /\ loop.now < loop.delay)

\* The callback of a timeout that was set for the longest delay has run, at
\* 8000 ms, and the page has made itself host.
C37_Reached ==
    /\ loop.generator = "hostWaitTimeout"
    /\ loop.runs = 1
    /\ loop.ranAt = HostWaitMax
    /\ app[1].party.role = "host"

\* C37 as stated: the delay d is such that 5000 <= d < 8000, and the
\* callback, when it runs, runs once and strictly before 8000 ms.
C37_ElectionWindowHalfOpen ==
    loop.generator = "hostWaitTimeout"
    => /\ loop.set = 1
       /\ HostWaitMin <= loop.delay /\ loop.delay < HostWaitMax
       /\ loop.runs <= 1
       /\ loop.runs = 1 => (HostWaitMin <= loop.ranAt /\ loop.ranAt < HostWaitMax)

====
